---- MODULE Spec2Model ----
(***************************************************************************)
(* The streaming analysis session of the FoldPilot frontend:               *)
(* analyzeProteinStreaming (lib/api.ts) reading a Server-Sent-Events body  *)
(* chunk by chunk, and the onProgress callback that handleAnalyze          *)
(* (app/search/page.tsx) passes to it.                                     *)
(*                                                                         *)
(* Text is a sequence of one-character strings.  A JSON payload on the     *)
(* wire is abstracted to "{" (key value)* "}" with one character per key   *)
(* and one per value, or to a single value character; JSONValue gives the  *)
(* JavaScript value a value character stands for.                          *)
(***************************************************************************)
EXTENDS Integers, Sequences, FiniteSets, TLC

\* ------------------------------------------------------------------ bounds
MaxFrames == 2

\* ------------------------------------------------------------ text helpers
NL == "\n"

Sep == <<NL, NL>>

Marker == <<"d", "a", "t", "a", ":", " ">>

MarkerLen == 6

StartsWith(s, p) ==
    /\ Len(s) >= Len(p)
    /\ SubSeq(s, 1, Len(p)) = p

Slice(s, n) == SubSeq(s, n + 1, Len(s))

\* index of the first separator in s at or after position i, 0 when none
RECURSIVE IndexOfSep(_, _)
IndexOfSep(s, i) ==
    IF i + 1 > Len(s) THEN 0
    ELSE IF s[i] = NL /\ s[i + 1] = NL THEN i
    ELSE IndexOfSep(s, i + 1)

\* String.prototype.split('\n\n'): leftmost, non-overlapping separators
RECURSIVE Split(_)
Split(s) ==
    LET i == IndexOfSep(s, 1) IN
        IF i = 0 THEN <<s>>
        ELSE <<SubSeq(s, 1, i - 1)>> \o Split(SubSeq(s, i + 2, Len(s)))

Front(s) == SubSeq(s, 1, Len(s) - 1)

Last(s) == s[Len(s)]

\* ------------------------------------------------------------ frame decoder
DecodeChunk_NoCarry(buf, chunk) ==
    LET parts == Split(chunk) IN
        [lines |-> Front(parts), buffer |-> Last(parts)]

\* the last piece is read but not popped
DecodeChunk_KeepsAll(buf, chunk) ==
    LET parts == Split(buf \o chunk) IN
        [lines |-> Front(parts), buffer |-> buf \o chunk]

\* buffer += chunk; lines = buffer.split('\n\n'); buffer = lines.pop() || ''
DecodeChunk(buf, chunk) ==
    LET parts == Split(buf \o chunk) IN
        [lines |-> Front(parts), buffer |-> Last(parts)]

\* ------------------------------------------------------------------- JSON
Undefined == "undefined"

Null == "null"

KeyChars == {"e", "c", "r", "w", "s", "m", "t", "a"}

KeyName(c) ==
    CASE c = "e" -> "error"
      [] c = "c" -> "complete"
      [] c = "r" -> "result"
      [] c = "w" -> "workflow"
      [] c = "s" -> "step"
      [] c = "m" -> "message"
      [] c = "t" -> "tools"
      [] c = "a" -> "api"

ValueChars == {"n", "0", "T", "B", "P", "Y", "D", "W", "L", "K", "X", "R", "Q", "U", "G", "A"}

JSONValue(c) ==
    CASE c = "n" -> Null
      [] c = "0" -> ""
      [] c = "T" -> "true"
      [] c = "B" -> "backend unavailable"
      [] c = "P" -> "planning"
      [] c = "Y" -> "synthesis"
      [] c = "D" -> "binding"
      [] c = "W" -> "workflow"
      [] c = "L" -> "{steps:[planning,structure,synthesis]}"
      [] c = "K" -> "{include_binding:true}"
      [] c = "X" -> "{steps:[custom,planning]}"
      [] c = "R" -> "{protein:p53}"
      [] c = "Q" -> "Parsing query"
      [] c = "U" -> "Building report"
      [] c = "G" -> "[UniProt API]"
      [] c = "A" -> "UniProt REST"

FieldNames == {"error", "complete", "result", "workflow", "step", "message", "tools", "api"}

\* the pairs of an object body: even length, keys at odd and values at even places
WellFormedPairs(body) ==
    /\ Len(body) % 2 = 0
    /\ \A i \in 1..Len(body) :
          IF i % 2 = 1 THEN body[i] \in KeyChars ELSE body[i] \in ValueChars

\* value of field f in an object body; a repeated key keeps its last value
FieldOf(body, f) ==
    LET at == {i \in 1..Len(body) : i % 2 = 1 /\ KeyName(body[i]) = f} IN
        IF at = {} THEN Undefined
        ELSE JSONValue(body[(CHOOSE i \in at : \A j \in at : j <= i) + 1])

\* JSON.parse(dataStr): ok = FALSE stands for the SyntaxError it throws
JSONParse(str) ==
    IF Len(str) >= 2 /\ str[1] = "{" /\ str[Len(str)] = "}"
          /\ WellFormedPairs(SubSeq(str, 2, Len(str) - 1))
    THEN [ok |-> TRUE, isNull |-> FALSE,
          obj |-> [f \in FieldNames |-> FieldOf(SubSeq(str, 2, Len(str) - 1), f)]]
    ELSE IF Len(str) = 1 /\ str[1] \in ValueChars
    THEN [ok |-> TRUE, isNull |-> (JSONValue(str[1]) = Null),
          obj |-> [f \in FieldNames |-> Undefined]]
    ELSE [ok |-> FALSE, isNull |-> FALSE, obj |-> [f \in FieldNames |-> Undefined]]

\* JavaScript truthiness of the values that occur
Truthy(v) == v \notin {Undefined, Null, ""}

IsObject(v) == v \in {JSONValue("L"), JSONValue("K"), JSONValue("X"), JSONValue("R")}

\* new Error(x).message is String(x)
ErrorMessage(v) == IF IsObject(v) THEN "[object Object]" ELSE v

\* ------------------------------------------- search page: onProgress callback
EmptyArray == "[]"

\* update.data.steps
StepsOf(v) ==
    IF v = JSONValue("L") THEN <<"planning", "structure", "synthesis">>
    ELSE IF v = JSONValue("X") THEN <<"custom", "planning">>
    ELSE <<>>

InitialStatus ==
    [currentStep |-> "planning", stepMessage |-> "", currentTools |-> EmptyArray,
     currentApi |-> "", workflowSteps |-> <<>>]

\* AgentProgress: Object.values(allAgents), the list shown when none is declared
DefaultSteps == <<"planning", "structure", "binding", "literature", "synthesis">>

\* no default list
KnownSteps_NoDefault(status) == status.workflowSteps

\* the step list the progress view is built from
KnownSteps(status) ==
    IF status.workflowSteps = <<>> THEN DefaultSteps ELSE status.workflowSteps

Range(seq) == {seq[i] : i \in 1..Len(seq)}

\* allAgents[stepId] is defined
IsBuiltIn(stepId) == stepId \in Range(DefaultSteps)

\* agents: workflowSteps.map(stepId => allAgents[stepId]).filter(Boolean), or
\* all agents when no list is declared; each agent stands by its id
Agents(status) == SelectSeq(KnownSteps(status), IsBuiltIn)

\* agents.findIndex(agent => agent.id === id): 0-based, -1 when absent
FindIndex(agents, id) ==
    IF \E i \in 1..Len(agents) : agents[i] = id
    THEN (CHOOSE i \in 1..Len(agents) :
              agents[i] = id /\ \A j \in 1..(i - 1) : agents[j] # id) - 1
    ELSE -1

\* getCurrentIndex() in real-time mode (currentStep is never empty on the page)
GetCurrentIndex(status) ==
    LET index == FindIndex(Agents(status), status.currentStep)
    IN  IF index >= 0 THEN index ELSE 0

\* a step outside a declared list is dropped
OnProgress_OnlyDeclared(status, update) ==
    IF update.step = "workflow" /\ Truthy(update.data)
    THEN [status EXCEPT !.workflowSteps = StepsOf(update.data)]
    ELSE IF status.workflowSteps # <<>> /\ update.step \notin Range(status.workflowSteps)
    THEN status
    ELSE [status EXCEPT
            !.currentStep = update.step,
            !.stepMessage = update.message,
            !.currentTools = IF Truthy(update.tools) THEN update.tools ELSE EmptyArray,
            !.currentApi = IF Truthy(update.api) THEN update.api ELSE ""]

\* a step outside the known list is appended to it
OnProgress_Appends(status, update) ==
    IF update.step = "workflow" /\ Truthy(update.data)
    THEN [status EXCEPT !.workflowSteps = StepsOf(update.data)]
    ELSE [status EXCEPT
            !.currentStep = update.step,
            !.stepMessage = update.message,
            !.currentTools = IF Truthy(update.tools) THEN update.tools ELSE EmptyArray,
            !.currentApi = IF Truthy(update.api) THEN update.api ELSE "",
            !.workflowSteps = IF update.step \in Range(KnownSteps(status)) THEN @
                              ELSE Append(KnownSteps(status), update.step)]

\* the workflow branch without its return
OnProgress_NoReturn(status, update) ==
    [status EXCEPT
        !.workflowSteps = IF update.step = "workflow" /\ Truthy(update.data)
                          THEN StepsOf(update.data) ELSE @,
        !.currentStep = update.step,
        !.stepMessage = update.message,
        !.currentTools = IF Truthy(update.tools) THEN update.tools ELSE EmptyArray,
        !.currentApi = IF Truthy(update.api) THEN update.api ELSE ""]

\* tools and api kept when the update has none
OnProgress_KeepsTools(status, update) ==
    IF update.step = "workflow" /\ Truthy(update.data)
    THEN [status EXCEPT !.workflowSteps = StepsOf(update.data)]
    ELSE [status EXCEPT
            !.currentStep = update.step,
            !.stepMessage = update.message,
            !.currentTools = IF Truthy(update.tools) THEN update.tools ELSE @,
            !.currentApi = IF Truthy(update.api) THEN update.api ELSE @]

\* the arrow function handleAnalyze passes as onProgress
OnProgress(status, update) ==
    IF update.step = "workflow" /\ Truthy(update.data)
    THEN [status EXCEPT !.workflowSteps = StepsOf(update.data)]
    ELSE [status EXCEPT
            !.currentStep = update.step,
            !.stepMessage = update.message,
            !.currentTools = IF Truthy(update.tools) THEN update.tools ELSE EmptyArray,
            !.currentApi = IF Truthy(update.api) THEN update.api ELSE ""]

\* ------------------------------------------------- the body of the for loop
WorkflowUpdate(data) ==
    [step |-> "workflow", message |-> "", tools |-> Undefined, api |-> Undefined,
     data |-> data["workflow"]]

StepUpdate(data) ==
    [step |-> data["step"], message |-> data["message"], tools |-> data["tools"],
     api |-> data["api"], data |-> Undefined]

Resolve(v) == [kind |-> "resolve", value |-> v]

Reject(msg) == [kind |-> "reject", value |-> msg]

\* st: what the loop body can change.  settles: the calls of resolve/reject in
\* order; progress: the onProgress calls in order; status: the page's progress
\* state; returned: the handler returned from inside the loop; calls: for each
\* line the loop body was entered for, in order, how many onProgress, resolve
\* and reject calls it made; throwsOn: the steps for which the caller's
\* onProgress throws (none for the callback of the search page).

\* the exception of the callback leaves the promise executor
Notify_ThrowRejects(st, update) ==
    IF update.step \in st.throwsOn
    THEN [st EXCEPT !.progress = Append(@, update),
                    !.settles = Append(@, Reject("callback failed")),
                    !.returned = TRUE]
    ELSE [st EXCEPT !.progress = Append(@, update), !.status = OnProgress(@, update)]

\* onProgress(update): the call is made; a callback that throws has changed
\* nothing, and the exception goes to the catch of the surrounding try
Notify(st, update) ==
    IF update.step \in st.throwsOn
    THEN [st EXCEPT !.progress = Append(@, update)]
    ELSE [st EXCEPT !.progress = Append(@, update), !.status = OnProgress(@, update)]

AfterWorkflow_Skipped(st, data) == st

\* if (data.workflow && onProgress) onProgress({step: 'workflow', ...})
AfterWorkflow(st, data) ==
    IF Truthy(data["workflow"]) THEN Notify(st, WorkflowUpdate(data)) ELSE st

\* if (data.step && onProgress) onProgress({step: data.step, ...})
AfterStep(st, data) ==
    IF Truthy(data["workflow"]) /\ "workflow" \in st.throwsOn
    THEN st    \* the workflow call threw: the rest of the try block is skipped
    ELSE IF Truthy(data["step"]) THEN Notify(st, StepUpdate(data)) ELSE st

Interpret_NoReturn(st, data) ==
    IF Truthy(data["error"])
    THEN [st EXCEPT !.settles = Append(@, Reject(ErrorMessage(data["error"])))]
    ELSE IF Truthy(data["complete"])
    THEN IF data["result"] \in {Undefined, Null}
         THEN st
         ELSE [st EXCEPT !.settles = Append(@, Resolve(data["result"]))]
    ELSE AfterStep(AfterWorkflow(st, data), data)

\* the statements inside try { ... } after JSON.parse
Interpret(st, data) ==
    IF Truthy(data["error"])
    THEN [st EXCEPT !.settles = Append(@, Reject(ErrorMessage(data["error"]))),
                    !.returned = TRUE]
    ELSE IF Truthy(data["complete"])
    THEN IF data["result"] \in {Undefined, Null}
         THEN st    \* data.result.binding_sites throws a TypeError, caught below
         ELSE [st EXCEPT !.settles = Append(@, Resolve(data["result"])),
                         !.returned = TRUE]
    ELSE AfterStep(AfterWorkflow(st, data), data)

\* leading newlines dropped before the marker test
RECURSIVE TrimStart(_)
TrimStart(line) ==
    IF line # <<>> /\ Head(line) = NL THEN TrimStart(Tail(line)) ELSE line

HandleLine_Trimmed(st, line) ==
    LET t == TrimStart(line)
        parsed == JSONParse(Slice(t, MarkerLen)) IN
        IF ~StartsWith(t, Marker) THEN st
        ELSE IF ~parsed.ok THEN st
        ELSE IF parsed.isNull THEN st
        ELSE Interpret(st, parsed.obj)

\* a payload that does not parse rejects the promise
HandleLine_ParseErrorRejects(st, line) ==
    LET parsed == JSONParse(Slice(line, MarkerLen)) IN
        IF ~StartsWith(line, Marker) THEN st
        ELSE IF ~parsed.ok
        THEN [st EXCEPT !.settles = Append(@, Reject("Unexpected token")),
                        !.returned = TRUE]
        ELSE IF parsed.isNull THEN st
        ELSE Interpret(st, parsed.obj)

\* one pass through the loop body for `line`
HandleLine(st, line) ==
    LET parsed == JSONParse(Slice(line, MarkerLen)) IN
        IF ~StartsWith(line, Marker) THEN st
        ELSE IF ~parsed.ok THEN st        \* SyntaxError, caught and logged
        ELSE IF parsed.isNull THEN st     \* TypeError on null.error, caught and logged
        ELSE Interpret(st, parsed.obj)

\* HandleLine, and the count of the calls it made appended to calls
ProcessLine(st, line) ==
    LET after == HandleLine(st, line) IN
        [after EXCEPT !.calls = Append(@,
            (Len(after.progress) - Len(st.progress))
                + (Len(after.settles) - Len(st.settles)))]

\* for (const line of lines) { ... return ... }
RECURSIVE ProcessLines(_, _)
ProcessLines(st, lines) ==
    IF lines = <<>> \/ st.returned THEN st
    ELSE ProcessLines(ProcessLine(st, Head(lines)), Tail(lines))

\* ------------------------------------------------- what the backend sends
\* A sent frame is [kind, v1, v2]; v1 and v2 are value characters.
Frame(k, a, b) == [kind |-> k, v1 |-> a, v2 |-> b]

Object(body) == Marker \o <<"{">> \o body \o <<"}">>

\* the frame's text on the wire (wire protocol: "data: " + JSON object)
Serialize(f) ==
    CASE f.kind = "error" -> Object(<<"e", f.v1>>)
      [] f.kind = "complete" -> Object(<<"c", "T", "r", f.v1>>)
      [] f.kind = "completeNoResult" -> Object(<<"c", "T">>)
      [] f.kind = "workflow" -> Object(<<"w", f.v1>>)
      [] f.kind = "progress" -> Object(<<"s", f.v1, "m", f.v2>>)
      [] f.kind = "both" -> Object(<<"w", f.v1, "s", f.v2>>)
      [] f.kind = "progressTools" -> Object(<<"s", f.v1, "m", f.v2, "t", "G", "a", "A">>)
      [] f.kind = "comment" -> <<":", "k">>
      [] f.kind = "malformed" -> Marker \o <<"{", "s">>
      [] f.kind = "nullJson" -> Marker \o <<"n">>
      [] f.kind = "noSpace" -> <<"d", "a", "t", "a", ":", "{", "e", f.v1, "}">>
      [] f.kind = "leadingNewline" -> <<NL>> \o Object(<<"s", f.v1, "m", f.v2>>)
      [] f.kind = "unknownShape" -> Object(<<"m", f.v1>>)
      [] f.kind = "primitive" -> Marker \o <<f.v1>>

\* the frames that streams of up to MaxFrames frames are built from
Catalogue ==
    { Frame("error", "B", "-"),
      Frame("complete", "R", "-"),
      Frame("workflow", "L", "-"),
      Frame("progress", "P", "Q") }

\* further frames, sent alone or next to one frame of the catalogue
Special ==
    { Frame("both", "L", "P"),
      Frame("comment", "-", "-"), Frame("malformed", "-", "-"),
      Frame("error", "0", "-"), Frame("complete", "n", "-"),
      Frame("completeNoResult", "-", "-"), Frame("nullJson", "-", "-"),
      Frame("noSpace", "B", "-"), Frame("leadingNewline", "P", "Q"),
      Frame("progress", "Y", "U"), Frame("progress", "D", "Q"),
      Frame("workflow", "K", "-"), Frame("workflow", "X", "-"),
      Frame("progressTools", "D", "U"),
      Frame("unknownShape", "Q", "-"), Frame("primitive", "T", "-") }

\* the stream of the p53 scenario
Scenario ==
    << Frame("workflow", "L", "-"), Frame("progress", "P", "Q"),
       Frame("progress", "Y", "U"), Frame("complete", "R", "-") >>

FrameSeqs ==
    UNION {[1..n -> Catalogue] : n \in 0..MaxFrames}
        \cup {Scenario}
        \cup {<<x>> : x \in Special}
        \cup {<<x, f>> : x \in Special, f \in Catalogue}
        \cup {<<f, x>> : x \in Special, f \in Catalogue}

\* frames joined by blank lines; the last separator is left out when ~terminated
RECURSIVE Wire(_, _)
Wire(frames, terminated) ==
    IF frames = <<>> THEN <<>>
    ELSE IF Len(frames) = 1 /\ ~terminated THEN Serialize(frames[1])
    ELSE Serialize(Head(frames)) \o Sep \o Wire(Tail(frames), terminated)

\* ------------------------------------------------------------------ state
VARIABLES
    query,           \* search page: the text in the query box
    submittedQuery,  \* search page: the query of the running or shown analysis
    results,         \* search page: the shown result, Null when none
    loading,         \* search page: handleAnalyze is between setLoading(true) and finally
    error,           \* search page: the shown error message, Null when none
    mounted,         \* the SearchContent component is on screen
    lastCall,        \* how the last call of handleAnalyze left: "none", "ignored", "started"
    sent,        \* the frames the backend sends on this response
    terminated,  \* whether the last sent frame is followed by a blank line
    stream,      \* the response body text
    pos,         \* how much of it reader.read() has delivered
    buffer,      \* `buffer`
    pc,          \* "idle" (no call yet), "fetch", "reading", "settled" (returned
                 \* from the loop), "ended" (left the loop on done), "caught"
                 \* (.catch ran)
    settles,     \* the calls of resolve and reject, in order
    progress,    \* the calls of onProgress, in order
    status,      \* currentStep, stepMessage, currentTools, currentApi, workflowSteps
    emitted,     \* the lines the decoder has split off so far
    calls,       \* per line the loop body ran for: number of calls it made
    sessions,    \* two calls in flight at once, each made by its own instance of
                 \* the page: per call its stream, pos, buffer, pc and loop state
    home         \* the timer-driven Home page: query, results, loading, error,
                 \* agentStep, and its running intervals and pending requests

page == <<query, submittedQuery, results, loading, error, mounted, lastCall>>

input == <<sent, terminated, stream>>

page_but_lastCall == <<query, submittedQuery, results, loading, error, mounted>>

vars == <<query, submittedQuery, results, loading, error, mounted, lastCall,
          sent, terminated, stream, pos, buffer, pc, settles, progress, status,
          emitted, calls, sessions, home>>

\* the queries typed: empty, blank, and a real one
Queries == {"", "   ", "Analyze human p53"}

\* String.prototype.trim on the queries that occur
Trim(q) == IF q \in {"", "   "} THEN "" ELSE q

\* how many times handleAnalyze of the Home page gets past its guard
MaxCalls == 2

\* Home as first rendered: the useState initial values, no interval, no request
InitialHome ==
    [query |-> "", results |-> Null, loading |-> FALSE, error |-> Null,
     agentStep |-> 0, intervals |-> 0, requests |-> 0, started |-> 0]

\* the component as first rendered; no call of analyzeProteinStreaming yet
OneSessionIdle ==
    /\ query = ""
    /\ submittedQuery = ""
    /\ results = Null
    /\ loading = FALSE
    /\ error = Null
    /\ mounted = TRUE
    /\ lastCall = "none"
    /\ status = InitialStatus
    /\ sent = <<>>
    /\ terminated = TRUE
    /\ stream = <<>>
    /\ pos = 0
    /\ buffer = <<>>
    /\ pc = "idle"
    /\ settles = <<>>
    /\ progress = <<>>
    /\ emitted = <<>>
    /\ calls = <<>>
    /\ home = InitialHome

\* the page as first rendered, with no call of analyzeProteinStreaming made
Init ==
    /\ OneSessionIdle
    /\ sessions = <<>>

\* the textarea's onChange (and the effect that copies the q parameter);
\* the textarea is rendered only while submittedQuery is empty
SetQuery(q) ==
    /\ mounted
    /\ submittedQuery = ""
    /\ query' = q
    /\ UNCHANGED <<submittedQuery, results, loading, error, mounted, lastCall,
                   input, pos, buffer, pc, settles, progress, status, emitted, calls, sessions, home>>

\* analyzeProteinStreaming(query, onProgress) up to the fetch call: a new
\* promise, and a request whose response will be the frames fs
StartStreaming(fs, term) ==
    /\ sent' = fs
    /\ terminated' = term
    /\ stream' = Wire(fs, term)
    /\ pos' = 0
    /\ buffer' = <<>>
    /\ pc' = "fetch"
    /\ settles' = <<>>
    /\ progress' = <<>>
    /\ emitted' = <<>>
    /\ calls' = <<>>

\* the query tested without trim
HandleAnalyze_NoTrim ==
    /\ mounted
    /\ submittedQuery = ""
    /\ IF query = ""
       THEN /\ lastCall' = "ignored"
            /\ UNCHANGED <<query, submittedQuery, results, loading, error, mounted,
                           input, pos, buffer, pc, settles, progress, status,
                           emitted, calls, sessions, home>>
       ELSE /\ lastCall' = "started"
            /\ submittedQuery' = query
            /\ loading' = TRUE
            /\ error' = Null
            /\ results' = Null
            /\ status' = InitialStatus
            /\ \E fs \in FrameSeqs :
                  \E term \in (IF fs = <<>> THEN {TRUE} ELSE BOOLEAN) :
                      StartStreaming(fs, term)
            /\ UNCHANGED <<query, mounted, sessions, home>>

\* handleAnalyze up to its await, from the Analyze button or Ctrl/Cmd+Enter;
\* both are rendered only while submittedQuery is empty
HandleAnalyze ==
    /\ mounted
    /\ submittedQuery = ""
    /\ IF Trim(query) = ""
       THEN /\ lastCall' = "ignored"      \* if (!query.trim()) return
            /\ UNCHANGED <<query, submittedQuery, results, loading, error, mounted,
                           input, pos, buffer, pc, settles, progress, status,
                           emitted, calls, sessions, home>>
       ELSE /\ lastCall' = "started"
            /\ submittedQuery' = query
            /\ loading' = TRUE
            /\ error' = Null
            /\ results' = Null
            /\ status' = InitialStatus
            /\ \E fs \in FrameSeqs :
                  \E term \in (IF fs = <<>> THEN {TRUE} ELSE BOOLEAN) :
                      StartStreaming(fs, term)
            /\ UNCHANGED <<query, mounted, sessions, home>>

\* the rejected value is also stored as the result
HandleAnalyzeResumes_Both ==
    /\ loading
    /\ settles # <<>>
    /\ results' = settles[1].value
    /\ error' = IF settles[1].kind = "resolve" THEN error ELSE settles[1].value
    /\ loading' = FALSE
    /\ UNCHANGED <<query, submittedQuery, mounted, lastCall,
                   input, pos, buffer, pc, settles, progress, status, emitted, calls, sessions, home>>

\* handleAnalyze after its await: setResults(data), or the catch block, and finally
HandleAnalyzeResumes ==
    /\ loading
    /\ settles # <<>>
    /\ IF settles[1].kind = "resolve"
       THEN results' = settles[1].value /\ error' = error
       ELSE error' = settles[1].value /\ results' = results
    /\ loading' = FALSE
    /\ UNCHANGED <<query, submittedQuery, mounted, lastCall,
                   input, pos, buffer, pc, settles, progress, status, emitted, calls, sessions, home>>

\* handleAskAnother, from the button ResultsPanel shows; the panel is rendered
\* only while results is set.  The call that produced the results has returned,
\* and its closure is dropped.
HandleAskAnother ==
    /\ mounted
    /\ Truthy(results)
    /\ query' = ""
    /\ submittedQuery' = ""
    /\ results' = Null
    /\ error' = Null
    /\ status' = InitialStatus
    /\ sent' = <<>>
    /\ terminated' = TRUE
    /\ stream' = <<>>
    /\ pos' = 0
    /\ buffer' = <<>>
    /\ pc' = "idle"
    /\ settles' = <<>>
    /\ progress' = <<>>
    /\ emitted' = <<>>
    /\ calls' = <<>>
    /\ UNCHANGED <<loading, mounted, lastCall, sessions, home>>

\* the user leaves the page (a Link to "/"): the component is torn down; it has
\* no effect cleanup and the session has no abort signal
Unmount ==
    /\ mounted
    /\ mounted' = FALSE
    /\ UNCHANGED <<query, submittedQuery, results, loading, error, lastCall,
                   input, pos, buffer, pc, settles, progress, status, emitted, calls, sessions, home>>

Catch_LogOnly(msg) ==
    /\ pc' = "caught"
    /\ UNCHANGED <<page, input, pos, buffer, settles, progress, status, emitted, calls, sessions, home>>

\* .catch((error) => { reject(error) })
Catch(msg) ==
    /\ settles' = Append(settles, Reject(msg))
    /\ pc' = "caught"
    /\ UNCHANGED <<page, input, pos, buffer, progress, status, emitted, calls, sessions, home>>

\* fetch() itself rejects
FetchFails ==
    /\ pc = "fetch"
    /\ Catch("Failed to fetch")

\* if (!response.ok) throw new Error(`HTTP error! status: ... - errorText`)
ResponseNotOk ==
    /\ pc = "fetch"
    /\ \E code \in {"404", "500"}, errorText \in {"Unknown error", "Internal Server Error"} :
          Catch("HTTP error! status: " \o code \o " - " \o errorText)

\* if (!reader) throw new Error('No response body')
ResponseNoBody ==
    /\ pc = "fetch"
    /\ Catch("No response body")

\* let buffer = ''; the loop is entered
ResponseOk ==
    /\ pc = "fetch"
    /\ pc' = "reading"
    /\ buffer' = <<>>
    /\ UNCHANGED <<page, input, pos, settles, progress, status, emitted, calls, sessions, home>>

\* one reader.read() that delivers the next n characters, and the loop body
ReadChunk(n) ==
    /\ pc = "reading"
    /\ LET d == DecodeChunk(buffer, SubSeq(stream, pos + 1, pos + n))
           st == ProcessLines([settles |-> settles, progress |-> progress,
                               status |-> status, returned |-> FALSE,
                               throwsOn |-> {},
                               calls |-> calls], d.lines)
       IN  /\ buffer' = d.buffer
           /\ emitted' = emitted \o d.lines
           /\ settles' = st.settles
           /\ progress' = st.progress
           /\ status' = st.status
           /\ calls' = st.calls
           /\ pc' = IF st.returned THEN "settled" ELSE "reading"
    /\ pos' = pos + n
    /\ UNCHANGED <<page, input, sessions, home>>

\* reader.read() reports done: break, and the handler returns
ReadDone ==
    /\ pc = "reading"
    /\ pos = Len(stream)
    /\ pc' = "ended"
    /\ UNCHANGED <<page, input, pos, buffer, settles, progress, status, emitted, calls, sessions, home>>

\* reader.read() rejects (the connection is lost)
ReadFails ==
    /\ pc = "reading"
    /\ Catch("network error")

Next ==
    \/ \E q \in Queries : SetQuery(q)
    \/ HandleAnalyze
    \/ HandleAnalyzeResumes
    \/ HandleAskAnother
    \/ Unmount
    \/ FetchFails
    \/ ResponseNotOk
    \/ ResponseNoBody
    \/ ResponseOk
    \/ \E n \in 1..(Len(stream) - pos) : ReadChunk(n)
    \/ ReadDone
    \/ ReadFails

Spec == Init /\ [][Next]_vars

\* the continuation of `await analyzeProteinStreaming` runs once the promise is
\* settled; nothing in the call makes the transport deliver, close or fail
FairSpec == Spec /\ WF_vars(HandleAnalyzeResumes)

\* ------------------------------------------------- notions used by the claims
\* the kinds of sent frame that carry an error or a completion indicator
IsTerminalKind(f) == f.kind \in {"error", "complete", "completeNoResult"}

NoEarlierTerminal(i) == \A j \in 1..(i - 1) : ~IsTerminalKind(sent[j])

\* the marker test written out
HasMarker(l) ==
    /\ Len(l) >= 6
    /\ l[1] = "d" /\ l[2] = "a" /\ l[3] = "t" /\ l[4] = "a" /\ l[5] = ":" /\ l[6] = " "

\* the reasons a backend error frame can carry
BackendReasons == {JSONValue(f.v1) : f \in {g \in Catalogue \cup Special : g.kind = "error"}}

\* the one update a sent workflow or progress frame stands for
ExpectedUpdate(f) ==
    IF f.kind \in {"workflow", "both"}
    THEN [step |-> "workflow", message |-> "", tools |-> Undefined, api |-> Undefined,
          data |-> JSONValue(f.v1)]
    ELSE IF f.kind = "progressTools"
    THEN [step |-> JSONValue(f.v1), message |-> JSONValue(f.v2),
          tools |-> JSONValue("G"), api |-> JSONValue("A"), data |-> Undefined]
    ELSE [step |-> JSONValue(f.v1), message |-> JSONValue(f.v2), tools |-> Undefined,
          api |-> Undefined, data |-> Undefined]

\* the updates of the workflow and progress frames before the first terminal frame
RECURSIVE ExpectedProgress(_)
ExpectedProgress(frames) ==
    IF frames = <<>> \/ IsTerminalKind(Head(frames)) THEN <<>>
    ELSE (IF Head(frames).kind \in {"workflow", "progress", "progressTools", "both"}
          THEN <<ExpectedUpdate(Head(frames))>> ELSE <<>>)
         \o ExpectedProgress(Tail(frames))

FreshLoopState ==
    [settles |-> <<>>, progress |-> <<>>, status |-> InitialStatus,
     returned |-> FALSE, throwsOn |-> {}, calls |-> <<>>]

\* ------------------------------------------------------------------ claims

\* C1: one call of analyzeProteinStreaming calls resolve or reject at most
\* once in total: never both, never one of them twice, whatever frames the
\* stream holds and however it is chunked.
C1_AtMostOneOutcome == Len(settles) <= 1

\* a whole stream with an error frame followed by a completion frame was read
\* and the promise was settled once
C1_Witness ==
    /\ pc = "settled"
    /\ pos = Len(stream)
    /\ Len(sent) >= 2
    /\ sent[1] = Frame("error", "B", "-")
    /\ sent[2] = Frame("complete", "R", "-")
    /\ Len(emitted) >= 2
    /\ Len(settles) = 1

\* C2 (as claimed): when reader.read() reports done and no error or completion
\* frame has ended the session, the promise is rejected, with a reason that
\* no backend error frame carries.
C2_PrematureEndRejects ==
    pc = "ended" =>
        /\ Len(settles) = 1
        /\ settles[1].kind = "reject"
        /\ settles[1].value \notin BackendReasons

\* C3: the lines the decoder has split off depend only on the text delivered
\* so far, not on how it was cut into chunks: they are the pieces of the
\* delivered text before its last separator; and they are the sent frames, in
\* order, so a terminated two-frame stream yields exactly its two frames.
C3_FragmentationInvariant ==
    /\ emitted = Front(Split(SubSeq(stream, 1, pos)))
    /\ \A i \in 1..Len(emitted) : i <= Len(sent) /\ emitted[i] = Serialize(sent[i])
    /\ (terminated /\ pos = Len(stream) /\ pc # "fetch") => Len(emitted) = Len(sent)

\* the first of two frames has been split off and a chunk has ended inside the
\* marker of the second
C3_Witness ==
    /\ Len(sent) = 2
    /\ terminated
    /\ Len(emitted) = 1
    /\ buffer # <<>>
    /\ Len(buffer) < MarkerLen

\* C4 (as claimed): once the loop body has run for a sent error or completion
\* frame, no later step calls onProgress or changes the pipeline status.
C4_Terminality ==
    [][(\E i \in 1..Len(calls) : IsTerminalKind(sent[i]))
          => (progress' = progress /\ status' = status)]_vars

\* C5 (as claimed): an error frame with reason r, processed before any other
\* terminal frame, leaves the promise rejected with message r and never resolved.
C5_ErrorFrameRejects ==
    \A i \in 1..Len(calls) :
        (sent[i].kind = "error" /\ NoEarlierTerminal(i))
            => settles = <<Reject(JSONValue(sent[i].v1))>>

\* C6 (as claimed): a completion frame with result p, processed before any
\* other terminal frame, leaves the promise resolved with p and never rejected.
C6_CompleteResolves ==
    \A i \in 1..Len(calls) :
        (sent[i].kind = "complete" /\ NoEarlierTerminal(i))
            => settles = <<Resolve(JSONValue(sent[i].v1))>>

\* C7 (as claimed): when the session has returned, the onProgress calls are,
\* in order, one per sent workflow or progress frame before the first
\* terminal frame.
C7_ProgressMatchesFrames ==
    pc \in {"settled", "ended"} => progress = ExpectedProgress(sent)

\* C8: the p53 scenario, under every chunking: onProgress is called for the
\* workflow, for planning and for synthesis, in this order and no more, and
\* then the promise is resolved with {protein: p53}.
C8_Scenario ==
    (sent = Scenario /\ terminated) =>
        /\ Len(progress) <= 3
        /\ \A i \in 1..Len(progress) :
              progress[i].step = <<"workflow", "planning", "synthesis">>[i]
        /\ (pos = Len(stream) /\ pc # "fetch") =>
              /\ pc = "settled"
              /\ Len(progress) = 3
              /\ progress[1].data = "{steps:[planning,structure,synthesis]}"
              /\ progress[2].message = "Parsing query"
              /\ progress[3].message = "Building report"
              /\ settles = <<Resolve("{protein:p53}")>>
              /\ status.currentStep = "synthesis"
              /\ status.workflowSteps = <<"planning", "structure", "synthesis">>

\* the scenario stream has been read to its end
C8_Witness ==
    /\ sent = Scenario
    /\ terminated
    /\ pos = Len(stream)
    /\ pc = "settled"
    /\ Len(progress) = 3

\* C9 (as claimed): the loop body makes at most one call (of onProgress,
\* resolve or reject) for one line.
C9_AtMostOneEventPerFrame == \A i \in 1..Len(calls) : calls[i] <= 1

\* C10: a line without the marker causes no call, and the calls made and the
\* pipeline status are those of the same lines with the unmarked ones left out.
C10_UnmarkedIgnored ==
    LET done == SubSeq(emitted, 1, Len(calls))
        ref == ProcessLines(FreshLoopState, SelectSeq(done, HasMarker))
    IN  /\ \A i \in 1..Len(calls) : ~HasMarker(done[i]) => calls[i] = 0
        /\ progress = ref.progress
        /\ status = ref.status
        /\ pc # "caught" => settles = ref.settles

\* an unmarked line was processed and a later line made a call
C10_Witness ==
    \E i, j \in 1..Len(calls) :
        /\ i < j
        /\ ~HasMarker(emitted[i])
        /\ calls[j] >= 1

\* a sent frame whose payload is not valid JSON, or is valid JSON of none of
\* the shapes the loop body tests for
IsAbsorbedKind(f) ==
    f.kind \in {"malformed", "nullJson", "unknownShape", "primitive", "completeNoResult"}

\* the first k decoded lines without those of absorbed frames
RECURSIVE LinesOfOtherFrames(_)
LinesOfOtherFrames(k) ==
    IF k = 0 THEN <<>>
    ELSE LinesOfOtherFrames(k - 1)
         \o (IF IsAbsorbedKind(sent[k]) THEN <<>> ELSE <<emitted[k]>>)

\* C11: a marked frame whose payload is not valid JSON, or valid JSON of none
\* of the recognised shapes, is absorbed: it makes no call, and the outcome,
\* the progress events and the page status are those of the same stream with
\* that frame left out, so the session goes on and can still resolve.
C11_BadFrameAbsorbed ==
    LET ref == ProcessLines(FreshLoopState, LinesOfOtherFrames(Len(calls)))
    IN  /\ \A i \in 1..Len(calls) : IsAbsorbedKind(sent[i]) => calls[i] = 0
        /\ progress = ref.progress
        /\ status = ref.status
        /\ pc # "caught" => settles = ref.settles

\* a frame of invalid JSON was processed and the completion frame after it
\* resolved the promise
C11_Witness ==
    /\ Len(calls) = 2
    /\ sent[1].kind = "malformed"
    /\ HasMarker(emitted[1])
    /\ sent[2].kind = "complete"
    /\ settles = <<Resolve(JSONValue(sent[2].v1))>>

\* what fetch, a non-2xx status or a missing body reject with
TransportReasons ==
    {"Failed to fetch", "No response body"}
    \cup {"HTTP error! status: " \o code \o " - " \o errorText :
             code \in {"404", "500"},
             errorText \in {"Unknown error", "Internal Server Error"}}

\* C12: a failure before any frame is read (fetch fails, non-2xx status, no
\* body) rejects the session with a description of the failure, without a
\* progress event and without a result, and nothing happens afterwards.
C12_TransportFailureRejects ==
    [][ /\ (pc = "fetch" /\ pc' = "caught") =>
              /\ \E m \in TransportReasons : settles' = <<Reject(m)>>
              /\ progress' = <<>>
              /\ emitted' = <<>>
              /\ calls' = <<>>
              /\ pos' = 0
        /\ pc = "caught" =>
              /\ pc' = "caught"
              /\ UNCHANGED <<settles, progress, emitted, calls, pos, status>>
      ]_vars

\* the backend answered 500 to a stream of frames: nothing was read, and the
\* page shows the status as the error
C12_Witness ==
    /\ pc = "caught"
    /\ sent # <<>>
    /\ pos = 0
    /\ progress = <<>>
    /\ settles = <<Reject("HTTP error! status: 500 - Internal Server Error")>>
    /\ error = "HTTP error! status: 500 - Internal Server Error"
    /\ results = Null

\* C13 as stated: starting a session with an empty or whitespace-only query
\* opens no request and the caller receives a rejection.
C13_EmptyQueryRejected ==
    lastCall = "ignored" => (pc = "idle" /\ error # Null)

\* C13: starting a session from the page with an empty or whitespace-only
\* query is ignored locally: handleAnalyze returns before it calls
\* analyzeProteinStreaming, so no request is opened, no page state changes and
\* no rejection or error is reported.
C13_EmptyQueryIgnored ==
    [][ (Trim(query) = "" /\ lastCall' # lastCall) =>
            /\ lastCall' = "ignored"
            /\ UNCHANGED <<page_but_lastCall, input, pos, buffer, pc, settles,
                           progress, status, emitted, calls>>
      ]_vars

\* handleAnalyze was called with a query of blanks and nothing started
C13_Witness ==
    /\ lastCall = "ignored"
    /\ query = "   "
    /\ pc = "idle"
    /\ ~loading
    /\ error = Null

\* C14 as stated: once the page that started a session is gone, the session
\* reads no more of the stream and delivers no more progress events.
C14_CancelStops ==
    [][ ~mounted => (pos' = pos /\ progress' = progress /\ settles' = settles) ]_vars

\* C15 as stated: a session whose transport stays open does not stay in the
\* read loop forever: a deadline rejects it.
C15_DeadlineRejects == (pc = "reading") ~> (pc # "reading")

\* C16: the page never holds a result and an error together.
C16_ResultsXorError == ~(results # Null /\ error # Null)

\* a rejected session left its reason on the page, with no result
C16_Witness ==
    /\ pc = "settled"
    /\ ~loading
    /\ error \in BackendReasons
    /\ results = Null
    /\ submittedQuery # ""

\* an update that takes the second branch of the page callback
IsStepUpdate(u) == ~(u.step = "workflow" /\ Truthy(u.data))

\* C17 as stated: once a progress event was applied and a step list is
\* declared, currentStep is an element of the declared list.
C17_CurrentStepDeclared ==
    ( /\ \E i \in 1..Len(progress) : IsStepUpdate(progress[i])
      /\ status.workflowSteps # <<>> )
    => status.currentStep \in Range(status.workflowSteps)

\* C17: once a progress event was applied, currentStep is the step named by the
\* most recent progress event, whether or not a declared step list holds it.
C17_CurrentStepIsLatest ==
    LET steps == SelectSeq(progress, IsStepUpdate)
    IN  steps # <<>> => status.currentStep = Last(steps).step

\* a step the list declared afterwards does not hold is the current step
C17_Witness ==
    /\ Len(calls) = 2
    /\ sent[1].kind = "progress"
    /\ sent[2].kind = "workflow"
    /\ status.workflowSteps # <<>>
    /\ status.currentStep = "binding"
    /\ status.currentStep \notin Range(status.workflowSteps)

\* one line was processed in this step, and it is the line of a sent progress
\* frame that makes its call
StepFrameProcessed ==
    /\ pc = "reading"
    /\ Len(calls') = Len(calls) + 1
    /\ sent[Len(calls')].kind = "progress"
    /\ JSONValue(sent[Len(calls')].v1) # ""
    /\ calls'[Len(calls')] = 1

\* C18 as stated: a progress event naming a step outside the known step list
\* adds that step to the list.
C18_UnknownStepAppended ==
    [][ LET s == JSONValue(sent[Len(calls')].v1) IN
          (StepFrameProcessed /\ s \notin Range(KnownSteps(status)))
              => s \in Range(KnownSteps(status'))
      ]_vars

\* C18: a progress event naming a step outside the known step list leaves the
\* list as it is and makes that step the current step.
C18_UnknownStepNotAppended ==
    [][ LET s == JSONValue(sent[Len(calls')].v1) IN
          (StepFrameProcessed /\ s \notin Range(KnownSteps(status)))
              => /\ status'.workflowSteps = status.workflowSteps
                 /\ status'.currentStep = s
      ]_vars

\* a declared list was followed by a step it does not hold
C18_Witness ==
    /\ Len(calls) = 2
    /\ sent[1].kind = "workflow"
    /\ sent[2].kind = "progress"
    /\ calls[2] = 1
    /\ status.currentStep = "binding"
    /\ status.workflowSteps = <<"planning", "structure", "synthesis">>

\* the step list a workflow frame declares
DeclaredSteps(v) ==
    IF v = "L" THEN <<"planning", "structure", "synthesis">>
    ELSE IF v = "X" THEN <<"custom", "planning">>
    ELSE <<>>

\* C19: a workflow-definition event replaces the step list with the declared
\* steps and leaves the current step, its message, tools and API unchanged.
C19_WorkflowReplacesList ==
    [][ ( /\ pc = "reading"
          /\ Len(calls') = Len(calls) + 1
          /\ sent[Len(calls')].kind = "workflow"
          /\ calls'[Len(calls')] = 1 )
        => status' = [status EXCEPT
                        !.workflowSteps = DeclaredSteps(sent[Len(calls')].v1)]
      ]_vars

\* a workflow frame after a progress frame: the list is declared and the step
\* of the progress frame is still the current one
C19_Witness ==
    /\ Len(calls) = 2
    /\ sent[1].kind = "progress"
    /\ sent[2].kind = "workflow"
    /\ calls[2] = 1
    /\ status.workflowSteps = <<"planning", "structure", "synthesis">>
    /\ status.currentStep = "planning"
    /\ status.stepMessage = JSONValue(sent[1].v2)

\* one line was processed in this step: the line of a sent progress frame, with
\* or without tools and api, for which onProgress was called
StepEventProcessed ==
    /\ pc = "reading"
    /\ Len(calls') = Len(calls) + 1
    /\ sent[Len(calls')].kind \in {"progress", "progressTools"}
    /\ calls'[Len(calls')] = 1

\* C21: applying a progress event sets all four status fields from that event
\* alone: currentStep and stepMessage from its step and message, currentTools
\* and currentApi from its tools and api, or the empty list and the empty
\* string when it has none; nothing of an earlier event remains.
C21_ProgressSetsAllFields ==
    [][ StepEventProcessed =>
          LET f == sent[Len(calls')] IN
            status' = [status EXCEPT
                !.currentStep = JSONValue(f.v1),
                !.stepMessage = JSONValue(f.v2),
                !.currentTools = IF f.kind = "progressTools" THEN "[UniProt API]"
                                 ELSE "[]",
                !.currentApi = IF f.kind = "progressTools" THEN "UniProt REST"
                               ELSE ""]
      ]_vars

\* a progress event with tools and api was followed by one without
C21_Witness ==
    /\ Len(calls) = 2
    /\ sent[1].kind = "progressTools"
    /\ sent[2].kind = "progress"
    /\ calls = <<1, 1>>
    /\ progress[1].tools = "[UniProt API]"
    /\ status.currentStep = "planning"
    /\ status.currentTools = "[]"
    /\ status.currentApi = ""

\* 0-based index of id in list, 0 when absent, by explicit search
RECURSIVE PositionIn(_, _)
PositionIn(list, id) ==
    IF list = <<>> THEN 0
    ELSE IF Head(list) = id THEN 0
    ELSE IF id \in Range(Tail(list)) THEN 1 + PositionIn(Tail(list), id)
    ELSE 0

\* C22 as stated: the displayed position of the active step is the index of
\* currentStep within the declared step list, 0 when it is not in the list,
\* for every declared list, built-in steps or not.
C22_IndexInDeclaredList ==
    status.workflowSteps # <<>> =>
        GetCurrentIndex(status) = PositionIn(status.workflowSteps, status.currentStep)

\* C23: whenever the declared step list is empty, the rendered step list is
\* planning, structure, binding, literature, synthesis; and until a progress
\* event arrives the active step is planning, at position 0.
C23_DefaultList ==
    status.workflowSteps = <<>> =>
        /\ Agents(status) = <<"planning", "structure", "binding", "literature", "synthesis">>
        /\ SelectSeq(progress, IsStepUpdate) = <<>> =>
              (status.currentStep = "planning" /\ GetCurrentIndex(status) = 0)

\* a workflow frame without a steps list was applied and the list is empty
C23_Witness ==
    /\ Len(calls) >= 1
    /\ sent[1] = Frame("workflow", "K", "-")
    /\ calls[1] = 1
    /\ progress # <<>>
    /\ status.workflowSteps = <<>>
    /\ Len(Agents(status)) = 5

\* C24 as stated: when the stream ends with a well-formed final frame in the
\* buffer that no separator followed, the frame is interpreted and the session
\* resolves or rejects by it.
C24_FinalFrameFlushed ==
    ( /\ pc = "ended"
      /\ ~terminated
      /\ sent # <<>>
      /\ Last(sent) \in {Frame("complete", "R", "-"), Frame("error", "B", "-")}
      /\ NoEarlierTerminal(Len(sent)) )
    => settles # <<>>

\* the text after the last separator, separators taken from the left
RECURSIVE AfterLastSeparator(_)
AfterLastSeparator(text) ==
    IF \E i \in 1..(Len(text) - 1) : text[i] = "\n" /\ text[i + 1] = "\n"
    THEN LET i == CHOOSE k \in 1..(Len(text) - 1) :
                    /\ text[k] = "\n" /\ text[k + 1] = "\n"
                    /\ \A j \in 1..(k - 1) : ~(text[j] = "\n" /\ text[j + 1] = "\n")
         IN  AfterLastSeparator(SubSeq(text, i + 2, Len(text)))
    ELSE text

\* C25: after each fragment the buffer holds exactly the text that follows the
\* last separator seen so far, contains no separator itself, and the lines
\* emitted so far followed by the buffer are the pieces of the text read.
C25_BufferInvariant ==
    pc \in {"reading", "settled", "ended"} =>
        /\ buffer = AfterLastSeparator(SubSeq(stream, 1, pos))
        /\ \A i \in 1..(Len(buffer) - 1) : ~(buffer[i] = "\n" /\ buffer[i + 1] = "\n")
        /\ emitted \o <<buffer>> = Split(SubSeq(stream, 1, pos))

\* two lines were emitted and the buffer holds the start of a third frame
C25_Witness ==
    /\ pc = "reading"
    /\ Len(emitted) = 2
    /\ buffer # <<>>
    /\ pos < Len(stream)
    /\ Len(buffer) < pos

\* C26 as stated: a frame that carries the completion indicator always ends
\* the session, with a result, a null result or none: when it is processed the
\* session resolves or rejects, and no later line is processed.
C26_CompleteAlwaysTerminates ==
    \A i \in 1..Len(calls) :
        sent[i].kind \in {"complete", "completeNoResult"} =>
            (Len(settles) = 1 /\ Len(calls) = i)

\* --------------------------------------------- two calls in flight at once

\* the responses of the two calls
TwoFrameSeqs ==
    { << Frame("progress", "P", "Q"), Frame("complete", "R", "-") >>,
      << Frame("workflow", "L", "-"), Frame("error", "B", "-") >>,
      << Frame("progress", "Y", "U") >> }

\* the promise executor entered: its own `let buffer = ''`, and the status of
\* the page instance that made the call
StartSession(w) ==
    [stream |-> w, pos |-> 0, buffer |-> <<>>, pc |-> "reading",
     loop |-> FreshLoopState]

\* `buffer` declared once for the module instead of inside the executor
ReadInto_SharedBuffer(ss, s, n) ==
    LET me == ss[s]
        d == DecodeChunk(me.buffer, SubSeq(me.stream, me.pos + 1, me.pos + n))
        st == ProcessLines([me.loop EXCEPT !.returned = FALSE], d.lines)
    IN  [t \in DOMAIN ss |->
            IF t = s
            THEN [me EXCEPT !.pos = @ + n, !.buffer = d.buffer, !.loop = st,
                            !.pc = IF st.returned THEN "settled" ELSE "reading"]
            ELSE [ss[t] EXCEPT !.buffer = d.buffer]]

\* one reader.read() of call s that delivers n characters, and the loop body,
\* on the buffer the executor of s closed over and the setters of its page
ReadInto(ss, s, n) ==
    LET me == ss[s]
        d == DecodeChunk(me.buffer, SubSeq(me.stream, me.pos + 1, me.pos + n))
        st == ProcessLines([me.loop EXCEPT !.returned = FALSE], d.lines)
    IN  [ss EXCEPT ![s] =
            [me EXCEPT !.pos = @ + n, !.buffer = d.buffer, !.loop = st,
                       !.pc = IF st.returned THEN "settled" ELSE "reading"]]

InitTwo ==
    /\ OneSessionIdle
    /\ sessions \in [{1, 2} -> {StartSession(Wire(fs, TRUE)) : fs \in TwoFrameSeqs}]

TwoReadChunk(s, n) ==
    /\ sessions[s].pc = "reading"
    /\ sessions' = ReadInto(sessions, s, n)
    /\ UNCHANGED <<page, input, pos, buffer, pc, settles, progress, status,
                   emitted, calls, home>>

TwoReadDone(s) ==
    /\ sessions[s].pc = "reading"
    /\ sessions[s].pos = Len(sessions[s].stream)
    /\ sessions' = [sessions EXCEPT ![s].pc = "ended"]
    /\ UNCHANGED <<page, input, pos, buffer, pc, settles, progress, status,
                   emitted, calls, home>>

NextTwo ==
    \/ \E s \in DOMAIN sessions :
          \E n \in 1..(Len(sessions[s].stream) - sessions[s].pos) : TwoReadChunk(s, n)
    \/ \E s \in DOMAIN sessions : TwoReadDone(s)

SpecTwo == InitTwo /\ [][NextTwo]_vars

\* what a call that is the only one in flight has after reading the first k
\* characters of w
Alone(w, k) ==
    LET d == DecodeChunk(<<>>, SubSeq(w, 1, k))
    IN  [buffer |-> d.buffer, loop |-> ProcessLines(FreshLoopState, d.lines)]

\* C20: when two sessions run interleaved, each has its own decoder buffer and
\* its own status: the progress events, the outcome and the status of each are
\* what they would be had it read the same part of its stream with no other
\* session in flight.
C20_SessionsIndependent ==
    \A s \in DOMAIN sessions :
        LET me == sessions[s]
            a == Alone(me.stream, me.pos)
        IN  /\ me.buffer = a.buffer
            /\ me.loop.progress = a.loop.progress
            /\ me.loop.settles = a.loop.settles
            /\ me.loop.status = a.loop.status

\* both sessions have made a progress call and each holds part of a frame of
\* its own stream, the two streams being different
C20_Witness ==
    /\ DOMAIN sessions = {1, 2}
    /\ sessions[1].stream # sessions[2].stream
    /\ \A s \in {1, 2} :
          /\ sessions[s].pc = "reading"
          /\ sessions[s].buffer # <<>>
          /\ sessions[s].loop.progress # <<>>
    /\ sessions[1].loop.status # sessions[2].loop.status

\* ------------------------------------------- a caller whose callback throws

\* the responses read by a call whose callback throws
ThrowFrameSeqs ==
    { << Frame("progress", "P", "Q"), Frame("complete", "R", "-") >>,
      << Frame("workflow", "L", "-"), Frame("progress", "Y", "U"),
         Frame("complete", "R", "-") >>,
      << Frame("both", "L", "P"), Frame("error", "B", "-") >>,
      << Frame("progress", "Y", "U"), Frame("progress", "P", "Q") >> }

\* the steps the caller's callback throws for
ThrowSets == {{"workflow"}, {"planning"}, {"workflow", "planning", "synthesis"}}

\* analyzeProteinStreaming(query, onProgress) with an onProgress that throws
\* for the steps of t
InitThrow ==
    /\ OneSessionIdle
    /\ sessions \in [{1} -> {[StartSession(Wire(fs, TRUE)) EXCEPT !.loop.throwsOn = t] :
                              fs \in ThrowFrameSeqs, t \in ThrowSets}]

SpecThrow == InitThrow /\ [][NextTwo]_vars

\* C27: an exception thrown by the caller's onProgress never changes the
\* outcome: the session is not rejected because of it, as many lines are
\* processed as with a callback that does not throw, and the outcome is the
\* same, so a later completion frame still resolves the session.
C27_CallbackThrowAbsorbed ==
    \A s \in DOMAIN sessions :
        LET me == sessions[s]
            a == Alone(me.stream, me.pos)
        IN  /\ me.loop.settles = a.loop.settles
            /\ Len(me.loop.calls) = Len(a.loop.calls)
            /\ me.buffer = a.buffer

\* the callback threw for a progress event and the completion frame after it
\* resolved the session
C27_Witness ==
    /\ DOMAIN sessions = {1}
    /\ \E i \in 1..Len(sessions[1].loop.progress) :
          sessions[1].loop.progress[i].step \in sessions[1].loop.throwsOn
    /\ sessions[1].loop.status = InitialStatus
    /\ sessions[1].loop.settles = <<Resolve("{protein:p53}")>>

\* ------------------------------------------------ the timer-driven Home page

searchPage == <<page, input, pos, buffer, pc, settles, progress, status,
                emitted, calls, sessions>>

\* the textarea's onChange, or a click on an example query; the textarea is
\* always rendered
HomeSetQuery(q) ==
    /\ home' = [home EXCEPT !.query = q]
    /\ UNCHANGED searchPage

\* handleAnalyze up to its await, from Ctrl/Cmd+Enter in the textarea (which
\* does not look at loading) or from the Analyze button: the state is reset,
\* an interval is started and analyzeProtein is called
HomeHandleAnalyze ==
    /\ Trim(home.query) # ""
    /\ home.started < MaxCalls
    /\ home' = [home EXCEPT !.loading = TRUE, !.error = Null, !.results = Null,
                            !.agentStep = 0, !.intervals = @ + 1,
                            !.requests = @ + 1, !.started = @ + 1]
    /\ UNCHANGED searchPage

\* the callback of setInterval: setAgentStep(prev => Math.min(prev + 1, 4))
HomeIntervalFires ==
    /\ home.intervals > 0
    /\ home' = [home EXCEPT !.agentStep = IF @ + 1 < 4 THEN @ + 1 ELSE 4]
    /\ UNCHANGED searchPage

\* analyzeProtein resolves: clearInterval, setAgentStep(4), setResults, finally
HomeRequestResolves ==
    /\ home.requests > 0
    /\ home' = [home EXCEPT !.intervals = @ - 1, !.agentStep = 4,
                            !.results = "{protein:p53}", !.loading = FALSE,
                            !.requests = @ - 1]
    /\ UNCHANGED searchPage

\* analyzeProtein rejects: the catch block and finally; clearInterval is skipped
HomeRequestRejects ==
    /\ home.requests > 0
    /\ home' = [home EXCEPT !.error = "Network Error", !.loading = FALSE,
                            !.requests = @ - 1]
    /\ UNCHANGED searchPage

NextHome ==
    \/ \E q \in Queries : HomeSetQuery(q)
    \/ HomeHandleAnalyze
    \/ HomeIntervalFires
    \/ HomeRequestResolves
    \/ HomeRequestRejects

SpecHome == Init /\ [][NextHome]_vars

\* C28 as stated: on the timer-driven page the progress interval is cleared
\* whenever the request finishes, failed or not: once loading is false again
\* and no request is pending, no interval is running.
C28_IntervalCleared ==
    (~home.loading /\ home.requests = 0) => home.intervals = 0

\* C29 as stated: on the search page, whenever loading is false either the
\* query input is shown or Ask Another is available, after a rejected session
\* as after a resolved one.
C29_CanStartAgain ==
    (mounted /\ ~loading) => (submittedQuery = "" \/ Truthy(results))

\* C30 as stated: at most one analysis request is in flight per page, and
\* loading is false only when no request is outstanding.
C30_OneRequestInFlight ==
    /\ home.requests <= 1
    /\ ~home.loading => home.requests = 0

====
